---- MODULE Spec2Model ----
(***************************************************************************)
(* Model of the ChatbotComparison front end: the StateManager coordinator, *)
(* the UserSelectionState / AISelectionState controllers and the           *)
(* ChatComparisonState polling protocol.                                   *)
(*                                                                         *)
(* Execution is single threaded: every action is one run of a handler (or  *)
(* of a continuation after an await) up to its next suspension point.      *)
(* The backend is an opaque collaborator: every answer it gives is an      *)
(* input drawn with \E from the answer sets below.                         *)
(* UI events are only offered on the screen that is shown (currentState).  *)
(* Texts are sequences of fragments: <<>> is "no text".                    *)
(***************************************************************************)
EXTENDS Bags, FiniteSets, Integers, Sequences, TLC

(* ---- bounds of the model ---------------------------------------------- *)
MaxPending == 1        \* selection requests in flight below which a UI event is accepted
MaxReloads == 2        \* session-list reloads in flight at most
MaxJobs == 2           \* messages accepted in one run
TickStep == 60000      \* ms by which the clock advances when time passes

(* ---- program constants ------------------------------------------------ *)
maxWaitTime == 60000
pollInterval == 200

(* ---- value sets ------------------------------------------------------- *)
NoId == ""
NoKey == "none"
SessionIds == {"s1", "s2"}
Keys == {"a", "b"}
Catalogs == {<<"a", "b">>}
\* answers to the request of the session list, for a backend that holds ids
SessionLists(ids) == {<<>>, SelectSeq(<<"s1", "s2">>, LAMBDA sid : sid \in ids)}
NetError == "Failed to fetch"
Range(s) == {s[i] : i \in 1..Len(s)}

\* text typed by the user: sequences of characters, " " is whitespace
TextInputs == {<<>>, <<" ">>, <<" ", "h", "i", " ">>}
\* text typed into a field of the new-session form
FieldInputs == {<<" ">>, <<" ", "h", "i", " ">>}

RECURSIVE TrimStart(_)
TrimStart(s) ==
    IF s # <<>> /\ Head(s) = " " THEN TrimStart(Tail(s)) ELSE s

RECURSIVE TrimEnd(_)
TrimEnd(s) ==
    IF s # <<>> /\ s[Len(s)] = " " THEN TrimEnd(SubSeq(s, 1, Len(s) - 1)) ELSE s

\* a trim that removes nothing
Trim_none(s) == s

\* String.prototype.trim
Trim(s) == TrimEnd(TrimStart(s))

(* ---- state ------------------------------------------------------------ *)
VARIABLES
    currentState,   \* StateManager.currentState
    sessionData,    \* StateManager.sessionData
    states,         \* StateManager.states: which controllers are instantiated
    errorShown,     \* argument of UIUtils.showError when the last step called it, else <<>>
    formInput,      \* DOM: the field values read when the last step was a form
                    \* submission, else <<>>
    user,           \* UserSelectionState fields
    ai,             \* AISelectionState fields and its two card containers
    net,            \* bag of selection requests awaiting their answer
    handoff,        \* when the last step was selectSecondAgent's continuation: the answer
                    \* it got and, if it called onAISelectionComplete, the agents handed up
    chat,           \* ChatComparisonState fields
    columns,        \* DOM: entries of the containers ai-1-messages, ai-2-messages
    aiStatus,       \* DOM: class of ai-1-status, ai-2-status
    headers,        \* DOM: text of ai-1-name, ai-2-name
    sendDisabled,   \* DOM: send-button.disabled and message-input.disabled
    jobs,           \* one record per accepted message (closure of sendMessageWithStreaming)
    call,           \* one run of APIClient.request: endpoint, HTTP response, outcome
    backendSessions, \* the ids of the sessions the backend holds
    served,         \* when the last step drew the second-slot cards: the
                    \* available_agents of the answer it drew them from
    app,            \* ChatbotApp: its start-up position, the scripts loaded so far,
                    \* the time waited for them, and what start-up has produced
    polled          \* when the last step was the return of a status poll: the job,
                    \* the slots whose response the payload brought and the status
                    \* it reported, else NoPoll

chatVars == <<chat, columns, aiStatus, headers, sendDisabled, jobs>>
vars == <<currentState, sessionData, states, errorShown, formInput, user, ai, net,
          handoff, chat, columns, aiStatus, headers, sendDisabled, jobs, call,
          backendSessions, polled, served, app>>

EmptyData == [session_id |-> NoId, hasAgents |-> FALSE, selectedAgents |-> <<>>]
\* no second-slot cards were drawn in the last step
NoServed == <<"none">>
NoPoll == [job |-> 0, fresh |-> {}, status |-> "none"]
NoHandoff == [first |-> NoKey, second |-> NoKey, pair |-> <<>>, answer |-> "none"]
NewAI == [availableAgents |-> <<>>, sessionId |-> NoId,
          firstCards |-> <<>>, firstSel |-> NoKey, firstDisabled |-> {},
          secondCards |-> <<>>, secondSel |-> NoKey, secondDisabled |-> {},
          \* history: the session ids whose select_first request succeeded
          \* since the controller was constructed or reset
          firstDone |-> {}]
Req(op, sid, key) == [op |-> op, sid |-> sid, key |-> key]
Send(bag, r) == bag (+) SetToBag({r})
Answered(bag, r) == bag (-) SetToBag({r})
Pending(op) == {r \in BagToSet(net) : r.op = op}
Reloads == CopiesIn(Req("get_sessions", NoId, NoKey), net)
\* a UI event is accepted while fewer than MaxPending requests, the reloads
\* of the session list aside, are in flight
CanSend == BagCardinality(net) - Reloads < MaxPending
\* a navigation that reloads the session list n times is accepted
CanReload(n) == Reloads + n <= MaxReloads

(* ---- UIUtils ---------------------------------------------------------- *)
\* UIUtils.showError(message)
showError(msg) == msg

(* ---- ChatComparisonState: the parts the coordinator calls ------------- *)
\* updateAIHeaders: names and Ready status, only with at least two agents
updateAIHeaders(data, oldHeaders) ==
    IF data.hasAgents /\ Len(data.selectedAgents) >= 2
    THEN <<data.selectedAgents[1], data.selectedAgents[2]>>
    ELSE oldHeaders

HeaderStatus(data, oldStatus) ==
    IF data.hasAgents /\ Len(data.selectedAgents) >= 2
    THEN <<"ready", "ready">>
    ELSE oldStatus

\* clearMessages: both containers emptied; every element they held is detached
clearMessages == <<<<>>, <<>>>>

\* initializeChat(sessionData)
initializeChat(data) ==
    /\ chat' = [sessionData |-> data, isProcessing |-> FALSE]
    /\ headers' = updateAIHeaders(data, headers)
    /\ aiStatus' = HeaderStatus(data, aiStatus)
    /\ columns' = clearMessages
    /\ sendDisabled' = FALSE

\* ChatComparisonState.reset, when the controller exists
chatReset ==
    IF states.chat
    THEN /\ chat' = [sessionData |-> EmptyData, isProcessing |-> FALSE]
         /\ columns' = clearMessages
         /\ sendDisabled' = FALSE
         /\ headers' = <<"AI Model 1", "AI Model 2">>
         /\ aiStatus' = <<"ready", "ready">>
    ELSE UNCHANGED <<chat, columns, sendDisabled, headers, aiStatus>>

(* ---- StateManager ----------------------------------------------------- *)
\* setSessionData: shallow merge of the given fields
setSessionId(data, sid) == [data EXCEPT !.session_id = sid]
setSelectedAgents(data, agents) ==
    [data EXCEPT !.hasAgents = TRUE, !.selectedAgents = agents]

\* transitionToAISelection without the check of session_id
transitionToAISelection_noGuard(data, bag) ==
    /\ states' = [states EXCEPT !.ai = TRUE]
    /\ ai' = [(IF states.ai THEN ai ELSE NewAI) EXCEPT !.sessionId = data.session_id]
    /\ net' = Send(bag, Req("get_available", data.session_id, NoKey))
    /\ currentState' = "ai-selection"
    /\ errorShown' = <<>>

\* transitionToAISelection, called with session data `data` and net `bag`
transitionToAISelection(data, bag) ==
    IF data.session_id = NoId
    THEN /\ errorShown' = showError(<<"No session selected">>)
         /\ net' = bag
         /\ UNCHANGED <<currentState, states, ai>>
    ELSE /\ states' = [states EXCEPT !.ai = TRUE]
         /\ ai' = [(IF states.ai THEN ai ELSE NewAI) EXCEPT !.sessionId = data.session_id]
         /\ net' = Send(bag, Req("get_available", data.session_id, NoKey))
         /\ currentState' = "ai-selection"
         /\ errorShown' = <<>>

\* the guard of transitionToChatComparison
ChatGuard(data) == data.session_id # NoId /\ data.hasAgents

\* transitionToChatComparison with session data `data`
transitionToChatComparison(data) ==
    IF ~ChatGuard(data)
    THEN /\ errorShown' = showError(<<"Missing session data or selected agents">>)
         /\ UNCHANGED <<currentState, states>>
         /\ UNCHANGED <<chat, columns, aiStatus, headers, sendDisabled>>
    ELSE /\ states' = [states EXCEPT !.chat = TRUE]
         /\ initializeChat(data)
         /\ currentState' = "chat-comparison"
         /\ errorShown' = <<>>

\* UserSelectionState.reset: selection dropped, sessions reloaded
userReset(bag) == Send(bag, Req("get_sessions", NoId, NoKey))

\* transitionToUserSelection
transitionToUserSelection ==
    /\ CanReload(1)
    /\ currentState' = "user-selection"
    /\ user' = [user EXCEPT !.selectedSession = NoId]
    /\ net' = userReset(net)
    /\ UNCHANGED <<sessionData, states, ai>>
    /\ errorShown' = <<>>
    /\ handoff' = NoHandoff
    /\ UNCHANGED chatVars
    /\ UNCHANGED call
    /\ formInput' = <<>>
    /\ UNCHANGED backendSessions
    /\ polled' = NoPoll
    /\ served' = NoServed
    /\ UNCHANGED app

\* back-to-user button
BackToUser ==
    /\ currentState = "ai-selection"
    /\ CanSend
    /\ transitionToUserSelection

\* back-to-user button, pressed while a selection request is unanswered
BackToUserBusy ==
    /\ currentState = "ai-selection"
    /\ ~CanSend
    /\ transitionToUserSelection

\* back-to-ai button: transitionToAISelection
BackToAI ==
    /\ currentState = "chat-comparison"
    /\ CanSend
    /\ transitionToAISelection(sessionData, net)
    /\ UNCHANGED <<sessionData, user>>
    /\ handoff' = NoHandoff
    /\ UNCHANGED chatVars
    /\ UNCHANGED call
    /\ formInput' = <<>>
    /\ UNCHANGED backendSessions
    /\ polled' = NoPoll
    /\ served' = NoServed
    /\ UNCHANGED app

\* AISelectionState.reset that keeps the agent list
aiReset_keepsAgents ==
    IF states.ai THEN [NewAI EXCEPT !.availableAgents = ai.availableAgents] ELSE ai

\* AISelectionState.reset, when the controller exists
aiReset == IF states.ai THEN NewAI ELSE ai

\* resetToUserSelection, callable on every screen; every
\* controller is reset, the user-selection controller twice (in the loop and
\* in transitionToUserSelection)
resetToUserSelection ==
    /\ CanReload(2)
    /\ sessionData' = EmptyData
    /\ user' = [user EXCEPT !.selectedSession = NoId]
    /\ net' = userReset(userReset(net))
    /\ ai' = aiReset
    /\ chatReset
    /\ currentState' = "user-selection"
    /\ UNCHANGED <<states, jobs>>
    /\ errorShown' = <<>>
    /\ handoff' = NoHandoff
    /\ UNCHANGED call
    /\ formInput' = <<>>
    /\ UNCHANGED backendSessions
    /\ polled' = NoPoll
    /\ served' = NoServed
    /\ UNCHANGED app

\* new-session button
NewSession ==
    /\ CanSend
    /\ resetToUserSelection

\* new-session button, pressed while a selection request is unanswered
NewSessionBusy ==
    /\ ~CanSend
    /\ resetToUserSelection

(* ---- UserSelectionState ----------------------------------------------- *)
\* loadSessions: answer of GET sessions
LoadSessionsResp ==
    /\ Pending("get_sessions") # {}
    /\ LET r == Req("get_sessions", NoId, NoKey) IN
       /\ net' = Answered(net, r)
       /\ \/ \E list \in SessionLists(backendSessions) :
                /\ user' = [user EXCEPT !.sessions = list]
                /\ errorShown' = <<>>
          \/ /\ errorShown' = showError(<<"Error loading sessions: ", NetError>>)
             /\ UNCHANGED user
    /\ UNCHANGED <<currentState, sessionData, states, ai>>
    /\ handoff' = NoHandoff
    /\ UNCHANGED chatVars
    /\ UNCHANGED call
    /\ formInput' = <<>>
    /\ UNCHANGED backendSessions
    /\ polled' = NoPoll
    /\ served' = NoServed
    /\ UNCHANGED app

\* the validation of handleNewSession that tests the name only
invalidFields_nameOnly(name, projectTitle) == name = <<>>

\* the validation of handleNewSession, on the trimmed fields
invalidFields(name, projectTitle) == name = <<>> \/ projectTitle = <<>>

\* handleNewSession: the form is submitted with a name and a project title
HandleNewSession ==
    /\ currentState = "user-selection"
    /\ \E name \in FieldInputs, projectTitle \in FieldInputs :
          /\ formInput' = <<name, projectTitle>>
          /\ IF invalidFields(Trim(name), Trim(projectTitle))
             THEN /\ errorShown' = showError(<<"Please fill in all fields.">>)
                  /\ UNCHANGED net
             ELSE /\ CanSend
                  /\ net' = Send(net, Req("create", NoId, NoKey))
                  /\ errorShown' = <<>>
    /\ UNCHANGED <<currentState, sessionData, states, user, ai>>
    /\ handoff' = NoHandoff
    /\ UNCHANGED chatVars
    /\ UNCHANGED call
    /\ UNCHANGED backendSessions
    /\ polled' = NoPoll
    /\ served' = NoServed
    /\ UNCHANGED app

\* handleNewSession after the answer of POST sessions {action: create}
CreateSessionResp ==
    /\ Pending("create") # {}
    /\ LET bag == Answered(net, Req("create", NoId, NoKey)) IN
       \/ \E sid \in backendSessions :
             /\ user' = [user EXCEPT !.selectedSession = sid]
             /\ sessionData' = setSessionId(sessionData, sid)
             /\ transitionToAISelection(sessionData', bag)
       \/ /\ errorShown' = showError(<<"Error creating session.">>)
          /\ net' = bag
          /\ UNCHANGED <<currentState, sessionData, states, user, ai>>
       \/ /\ errorShown' = showError(<<"Error creating session: ", NetError>>)
          /\ net' = bag
          /\ UNCHANGED <<currentState, sessionData, states, user, ai>>
    /\ handoff' = NoHandoff
    /\ UNCHANGED chatVars
    /\ UNCHANGED call
    /\ formInput' = <<>>
    /\ UNCHANGED backendSessions
    /\ polled' = NoPoll
    /\ served' = NoServed
    /\ UNCHANGED app

\* a session card is clicked: selectSession(sessionId) up to its request
SelectSession ==
    /\ currentState = "user-selection"
    /\ CanSend
    /\ \E sid \in Range(user.sessions) :
          net' = Send(net, Req("select", sid, NoKey))
    /\ UNCHANGED <<currentState, sessionData, states, user, ai>>
    /\ errorShown' = <<>>
    /\ handoff' = NoHandoff
    /\ UNCHANGED chatVars
    /\ UNCHANGED call
    /\ formInput' = <<>>
    /\ UNCHANGED backendSessions
    /\ polled' = NoPoll
    /\ served' = NoServed
    /\ UNCHANGED app

\* selectSession after the answer of POST sessions {action: select}
SelectSessionResp ==
    /\ \E r \in Pending("select") :
          LET bag == Answered(net, r)
              found == r.sid \in Range(user.sessions) IN
          \/ /\ user' = [user EXCEPT !.selectedSession = IF found THEN r.sid ELSE NoId]
             /\ sessionData' = IF found THEN setSessionId(sessionData, r.sid) ELSE sessionData
             /\ transitionToAISelection(sessionData', bag)
          \/ /\ errorShown' = showError(<<"Error selecting session.">>)
             /\ net' = bag
             /\ UNCHANGED <<currentState, sessionData, states, user, ai>>
          \/ /\ errorShown' = showError(<<"Error selecting session: ", NetError>>)
             /\ net' = bag
             /\ UNCHANGED <<currentState, sessionData, states, user, ai>>
    /\ handoff' = NoHandoff
    /\ UNCHANGED chatVars
    /\ UNCHANGED call
    /\ formInput' = <<>>
    /\ UNCHANGED backendSessions
    /\ polled' = NoPoll
    /\ served' = NoServed
    /\ UNCHANGED app

(* ---- AISelectionState -------------------------------------------------- *)
\* answers of the backend to the agent-selection requests
\* second-slot options: the catalog, with or without the first choice
SecondOptionLists(first) ==
    Catalogs \cup {SelectSeq(cat, LAMBDA k : k # first) : cat \in Catalogs}
SelectedAnswers == {<<>>} \cup {<<x, y>> : x \in Keys, y \in Keys}
TypeErrorIncludes == "Cannot read properties of undefined (reading 'includes')"

\* loadAvailableAgents after the answer of POST ai-selection {get_available}
AvailableAgentsResp ==
    /\ \E r \in Pending("get_available") :
          /\ net' = Answered(net, r)
          /\ \/ \E list \in Catalogs \cup {<<>>} :
                   \* renderFirstAgentOptions: one fresh card per agent
                   /\ ai' = [ai EXCEPT !.availableAgents = list,
                                       !.firstCards = list,
                                       !.firstSel = NoKey,
                                       !.firstDisabled = {}]
                   /\ errorShown' = <<>>
             \/ /\ errorShown' = showError(<<"Error loading AI agents">>)
                /\ UNCHANGED ai
             \/ /\ errorShown' = showError(<<"Error loading AI agents: ", NetError>>)
                /\ UNCHANGED ai
    /\ UNCHANGED <<currentState, sessionData, states, user>>
    /\ handoff' = NoHandoff
    /\ UNCHANGED chatVars
    /\ UNCHANGED call
    /\ formInput' = <<>>
    /\ UNCHANGED backendSessions
    /\ polled' = NoPoll
    /\ served' = NoServed
    /\ UNCHANGED app

\* click on an enabled card of first-ai-options: selectFirstAgent up to its request
SelectFirstAgent ==
    /\ currentState = "ai-selection"
    /\ CanSend
    /\ \E agentKey \in Range(ai.firstCards) \ ai.firstDisabled :
          net' = Send(net, Req("select_first", ai.sessionId, agentKey))
    /\ UNCHANGED <<currentState, sessionData, states, user, ai>>
    /\ errorShown' = <<>>
    /\ handoff' = NoHandoff
    /\ UNCHANGED chatVars
    /\ UNCHANGED call
    /\ formInput' = <<>>
    /\ UNCHANGED backendSessions
    /\ polled' = NoPoll
    /\ served' = NoServed
    /\ UNCHANGED app

\* updateAgentSelection: the selected card of a container after the update
SelectedCard(cards, agentKey) ==
    IF agentKey \in Range(cards) THEN agentKey ELSE NoKey

\* updateAgentSelection that disables the other cards whatever the flag
DisabledCards_always(cards, disabled, agentKey, disableOthers) ==
    (disabled \cap {agentKey}) \cup (Range(cards) \ {agentKey})

\* updateAgentSelection: the cards of a container with class disabled after
\* the update; the class of the selected card is left as it was
DisabledCards(cards, disabled, agentKey, disableOthers) ==
    (disabled \cap {agentKey})
        \cup (IF disableOthers THEN Range(cards) \ {agentKey} ELSE {})

\* selectFirstAgent after the answer of select_first; on success the
\* second-slot options are requested (renderSecondAgentOptions)
SelectFirstResp ==
    /\ \E r \in Pending("select_first") :
          LET bag == Answered(net, r) IN
          \/ /\ ai' = [ai EXCEPT !.firstSel = SelectedCard(ai.firstCards, r.key),
                                  !.firstDisabled =
                                      DisabledCards(ai.firstCards, @, r.key, FALSE),
                                  !.firstDone = @ \cup {r.sid}]
             /\ net' = Send(bag, Req("get_second_options", ai.sessionId, NoKey))
             /\ errorShown' = <<>>
          \/ /\ errorShown' = showError(<<"Error selecting first agent">>)
             /\ net' = bag
             /\ UNCHANGED ai
          \/ /\ errorShown' = showError(<<"Error selecting first agent: ", NetError>>)
             /\ net' = bag
             /\ UNCHANGED ai
    /\ UNCHANGED <<currentState, sessionData, states, user>>
    /\ handoff' = NoHandoff
    /\ UNCHANGED chatVars
    /\ UNCHANGED call
    /\ formInput' = <<>>
    /\ UNCHANGED backendSessions
    /\ polled' = NoPoll
    /\ served' = NoServed
    /\ UNCHANGED app

\* a rendering that leaves out the first agent of the answer
createAICards_afterFirst(agents) ==
    [i \in 1..(Len(agents) - 1) |-> agents[i + 1]]

\* the container after forEach(agent => container.appendChild(createAICard(agent))):
\* one card per agent of the answer, in the answer's order, by data-agent-key
createAICards(agents) ==
    [i \in 1..Len(agents) |-> agents[i]]

\* renderSecondAgentOptions after the answer of get_second_options
SecondOptionsResp ==
    /\ \E r \in Pending("get_second_options") :
          /\ net' = Answered(net, r)
          /\ \/ \E list \in SecondOptionLists(ai.firstSel) :
                   /\ ai' = [ai EXCEPT !.secondCards = createAICards(list),
                                       !.secondSel = NoKey,
                                       !.secondDisabled = {}]
                   /\ served' = list
                   /\ errorShown' = <<>>
             \/ /\ UNCHANGED ai
                /\ served' = NoServed
                /\ errorShown' = <<>>
             \/ /\ errorShown' =
                      showError(<<"Error loading second agent options: ", NetError>>)
                /\ served' = NoServed
                /\ UNCHANGED ai
    /\ UNCHANGED <<currentState, sessionData, states, user>>
    /\ handoff' = NoHandoff
    /\ UNCHANGED chatVars
    /\ UNCHANGED call
    /\ formInput' = <<>>
    /\ UNCHANGED backendSessions
    /\ polled' = NoPoll
    /\ UNCHANGED app

\* click on an enabled card of second-ai-options: selectSecondAgent up to its request
SelectSecondAgent ==
    /\ currentState = "ai-selection"
    /\ CanSend
    /\ \E agentKey \in Range(ai.secondCards) \ ai.secondDisabled :
          net' = Send(net, Req("select_second", ai.sessionId, agentKey))
    /\ UNCHANGED <<currentState, sessionData, states, user, ai>>
    /\ errorShown' = <<>>
    /\ handoff' = NoHandoff
    /\ UNCHANGED chatVars
    /\ UNCHANGED call
    /\ formInput' = <<>>
    /\ UNCHANGED backendSessions
    /\ polled' = NoPoll
    /\ served' = NoServed
    /\ UNCHANGED app

\* the agents taken in the order of the backend's selected_agents
FinalizedAgents_asAnswered(availableAgents, selected_agents) ==
    SelectSeq(selected_agents, LAMBDA k : k \in Range(availableAgents))

\* the agents handed to the coordinator: the catalog entries whose key the
\* backend lists in selected_agents, in catalog order
FinalizedAgents(availableAgents, selected_agents) ==
    SelectSeq(availableAgents, LAMBDA k : k \in Range(selected_agents))

\* updateSecondAgentSelection: selected card marked, every other card disabled
secondSelected(a, agentKey) ==
    [a EXCEPT !.secondSel = SelectedCard(a.secondCards, agentKey),
              !.secondDisabled = DisabledCards(a.secondCards, @, agentKey, TRUE)]

\* selectSecondAgent that tests response.success alone
SelectSecondResp_successOnly ==
    /\ \E r \in Pending("select_second") :
          /\ net' = Answered(net, r)
          /\ \/ \* success and ready_for_conversation: onAISelectionComplete
                \E selected_agents \in SelectedAnswers :
                   LET selectedAgents ==
                           FinalizedAgents(ai.availableAgents, selected_agents) IN
                   /\ ai' = secondSelected(ai, r.key)
                   /\ \E answer \in {"ready", "not ready"} :
                         handoff' = [first |-> ai.firstSel, second |-> r.key,
                                     pair |-> selectedAgents, answer |-> answer]
                   /\ sessionData' = setSelectedAgents(sessionData, selectedAgents)
                   /\ transitionToChatComparison(sessionData')
             \/ \* ready, but the answer carries no selected_agents
                /\ ai' = secondSelected(ai, r.key)
                /\ errorShown' =
                      showError(<<"Error selecting second agent: ", TypeErrorIncludes>>)
                /\ UNCHANGED <<currentState, sessionData, states>>
                /\ handoff' = [NoHandoff EXCEPT !.answer = "ready"]
                /\ UNCHANGED <<chat, columns, aiStatus, headers, sendDisabled>>
             \/ /\ errorShown' =
                      showError(<<"Error selecting second agent: ", NetError>>)
                /\ UNCHANGED <<currentState, sessionData, states, ai>>
                /\ handoff' = [NoHandoff EXCEPT !.answer = "failed"]
                /\ UNCHANGED <<chat, columns, aiStatus, headers, sendDisabled>>
    /\ UNCHANGED <<user, jobs>>
    /\ UNCHANGED call
    /\ formInput' = <<>>
    /\ UNCHANGED backendSessions
    /\ polled' = NoPoll
    /\ served' = NoServed
    /\ UNCHANGED app

\* selectSecondAgent after the answer of select_second
SelectSecondResp ==
    /\ \E r \in Pending("select_second") :
          /\ net' = Answered(net, r)
          /\ \/ \* success and ready_for_conversation: onAISelectionComplete
                \E selected_agents \in SelectedAnswers :
                   LET selectedAgents ==
                           FinalizedAgents(ai.availableAgents, selected_agents) IN
                   /\ ai' = secondSelected(ai, r.key)
                   /\ handoff' = [first |-> ai.firstSel, second |-> r.key,
                                  pair |-> selectedAgents, answer |-> "ready"]
                   /\ sessionData' = setSelectedAgents(sessionData, selectedAgents)
                   /\ transitionToChatComparison(sessionData')
             \/ \* ready, but the answer carries no selected_agents
                /\ ai' = secondSelected(ai, r.key)
                /\ errorShown' =
                      showError(<<"Error selecting second agent: ", TypeErrorIncludes>>)
                /\ UNCHANGED <<currentState, sessionData, states>>
                /\ handoff' = [NoHandoff EXCEPT !.answer = "ready"]
                /\ UNCHANGED <<chat, columns, aiStatus, headers, sendDisabled>>
             \/ \* success or ready_for_conversation missing
                /\ errorShown' = showError(<<"Error selecting second agent">>)
                /\ UNCHANGED <<currentState, sessionData, states, ai>>
                /\ handoff' = [NoHandoff EXCEPT !.answer = "not ready"]
                /\ UNCHANGED <<chat, columns, aiStatus, headers, sendDisabled>>
             \/ /\ errorShown' =
                      showError(<<"Error selecting second agent: ", NetError>>)
                /\ UNCHANGED <<currentState, sessionData, states, ai>>
                /\ handoff' = [NoHandoff EXCEPT !.answer = "failed"]
                /\ UNCHANGED <<chat, columns, aiStatus, headers, sendDisabled>>
    /\ UNCHANGED <<user, jobs>>
    /\ UNCHANGED call
    /\ formInput' = <<>>
    /\ UNCHANGED backendSessions
    /\ polled' = NoPoll
    /\ served' = NoServed
    /\ UNCHANGED app

(* ---- ChatComparisonState: one message -------------------------------- *)
\* responses[key] of a status payload
Response(key) == <<"reply of ", key>>
Slots == {1, 2}
TypeErrorReplace == "Cannot read properties of null (reading 'replaceChild')"
NoMeta == [display_name |-> "", processing_time_seconds |-> 0, cost_usd |-> 0,
           error |-> FALSE]
\* metadata[key] of a status payload
ServerMeta(key) == [display_name |-> key, processing_time_seconds |-> 2,
                    cost_usd |-> 1, error |-> FALSE]
TimeoutMeta == [display_name |-> "", processing_time_seconds |-> 30, cost_usd |-> 0,
                error |-> TRUE]
ErrorMeta == [display_name |-> "", processing_time_seconds |-> 0, cost_usd |-> 0,
              error |-> TRUE]

\* UIUtils.createMessage; `j` is the message the element belongs to
createMessage(content, role, metadata, j) ==
    [kind |-> role, job |-> j, text |-> content,
     meta |-> IF role = "assistant" THEN metadata ELSE NoMeta]

\* the element createPlaceholderMessage builds
Placeholder(j) ==
    [kind |-> "placeholder", job |-> j, text |-> <<"Generating response...">>,
     meta |-> NoMeta]

\* createPlaceholderMessage without the appendChild
createPlaceholderMessage_notAppended(col, j) == col

\* createPlaceholderMessage: the placeholder is appended to the container
createPlaceholderMessage(col, j) == Append(col, Placeholder(j))

\* addUserMessage that fills the first column only
addUserMessage_firstOnly(cols, agents, message, j) ==
    [c \in Slots |->
        IF Len(agents) >= c /\ c = 1
        THEN Append(cols[c], createMessage(message, "user", NoMeta, j))
        ELSE cols[c]]

\* addUserMessage: the message is appended to the column of each agent present
addUserMessage(cols, agents, message, j) ==
    [c \in Slots |->
        IF Len(agents) >= c
        THEN Append(cols[c], createMessage(message, "user", NoMeta, j))
        ELSE cols[c]]

\* placeholder.parentNode is the container: the placeholder is still in it
Attached(cols, c, j) ==
    \E i \in 1..Len(cols[c]) : cols[c][i] = Placeholder(j)

\* replaceChild applied to the last child of the container
replaceChild_lastChild(col, j, element) ==
    [i \in 1..Len(col) |-> IF i = Len(col) THEN element ELSE col[i]]

\* placeholder.parentNode.replaceChild(element, placeholder)
replaceChild(col, j, element) ==
    [i \in 1..Len(col) |-> IF col[i] = Placeholder(j) THEN element ELSE col[i]]

\* replaceWithActualResponse that leaves out the metadata argument
replaceWithActualResponse_noMetadata(st, c, j, content, metadata) ==
    IF ~Attached(st.cols, c, j)
    THEN [st EXCEPT !.threw = TRUE]
    ELSE [st EXCEPT
            !.cols[c] = replaceChild(@, j, createMessage(content, "assistant", NoMeta, j)),
            !.status[c] = "ready"]

\* The handlers below run on st = [cols, status, received, threw]; threw is
\* set when a statement raised, and the statements after it are skipped.
\* replaceWithActualResponse
replaceWithActualResponse(st, c, j, content, metadata) ==
    IF ~Attached(st.cols, c, j)
    THEN [st EXCEPT !.threw = TRUE]
    ELSE [st EXCEPT
            !.cols[c] = replaceChild(@, j, createMessage(content, "assistant", metadata, j)),
            !.status[c] = "ready"]

\* handleResponseFailure
handleResponseFailure(st, c, j, message, metadata) ==
    IF ~Attached(st.cols, c, j)
    THEN [st EXCEPT !.threw = TRUE]
    ELSE [st EXCEPT
            !.cols[c] = replaceChild(@, j, createMessage(message, "assistant", metadata, j)),
            !.status[c] = "error"]

\* handleResponseTimeout with the metadata of handleResponseError
handleResponseTimeout_errorMeta(st, c, j) ==
    handleResponseFailure(st, c, j, <<"Request timeout">>, ErrorMeta)

\* handleResponseTimeout
handleResponseTimeout(st, c, j) ==
    handleResponseFailure(st, c, j, <<"Request timeout">>, TimeoutMeta)

\* handleResponseError with the metadata of handleResponseTimeout
handleResponseError_timeoutMeta(st, c, j, message) ==
    handleResponseFailure(st, c, j, <<"Error: ", message>>, TimeoutMeta)

\* handleResponseError
handleResponseError(st, c, j, message) ==
    handleResponseFailure(st, c, j, <<"Error: ", message>>, ErrorMeta)

\* pollForResponses: the check of one agent's response in a status payload
SlotReady(job, c, payload, received) ==
    /\ Len(job.agents) >= c
    /\ job.agents[c] \in payload.has
    /\ c \notin received

\* a check that takes an agent's response only after the agents before it
checkResponse_inOrder(st, c, j, job, payload) ==
    IF st.threw \/ ~SlotReady(job, c, payload, st.received)
                \/ ~({d \in Slots : d < c} \subseteq st.received)
    THEN st
    ELSE replaceWithActualResponse([st EXCEPT !.received = @ \cup {c}], c, j,
                                   Response(job.agents[c]), ServerMeta(job.agents[c]))

checkResponse(st, c, j, job, payload) ==
    IF st.threw \/ ~SlotReady(job, c, payload, st.received)
    THEN st
    ELSE replaceWithActualResponse([st EXCEPT !.received = @ \cup {c}], c, j,
                                   Response(job.agents[c]), ServerMeta(job.agents[c]))

\* a condition that never ends the polling
ContinuePolling_always(received, status, elapsed) == TRUE

\* a condition that goes on until both slots are resolved
ContinuePolling_untilResolved(received, status, elapsed) ==
    Cardinality(received) < 2

\* pollForResponses: the condition under which the next poll is scheduled
ContinuePolling(received, status, elapsed) ==
    /\ Cardinality(received) < 2
    /\ status # "completed"
    /\ elapsed < maxWaitTime

\* a "Timeout or completion" branch that handles slot ai-1 only
timeoutRemaining_firstOnly(st, j) ==
    IF 1 \notin st.received THEN handleResponseTimeout(st, 1, j) ELSE st

\* pollForResponses: "Timeout or completion" branch, slot ai-1 then ai-2
timeoutRemaining(st, j) ==
    LET s1 == IF 1 \notin st.received THEN handleResponseTimeout(st, 1, j) ELSE st
    IN  IF s1.threw \/ 2 \in s1.received THEN s1 ELSE handleResponseTimeout(s1, 2, j)

\* the catch blocks without the statement for ai-2
errorRemaining_firstOnly(st, j, message) ==
    IF 1 \notin st.received THEN handleResponseError(st, 1, j, message) ELSE st

\* the catch blocks: every slot not received gets the error, ai-1 then ai-2
errorRemaining(st, j, message) ==
    LET s1 == IF 1 \notin st.received THEN handleResponseError(st, 1, j, message) ELSE st
    IN  IF s1.threw \/ 2 \in s1.received THEN s1 ELSE handleResponseError(s1, 2, j, message)

NewJob(message, data) ==
    [message |-> message,
     agents |-> IF data.hasAgents THEN data.selectedAgents ELSE <<>>,
     sid |-> data.session_id,
     phase |-> "starting",      \* starting, polling, waiting or done
     exit |-> "running",        \* how the message ended
     received |-> {},           \* responsesReceived
     echo |-> FALSE,            \* a payload held the response of a slot received before
     waited |-> 0,              \* time between the submission and startTime
     elapsed |-> 0,             \* Date.now() - startTime, up to the last poll result
     due |-> 0]                 \* elapsed time at which the poll timer may fire

\* handleMessageSubmit up to the startChatMessage request
HandleMessageSubmit ==
    /\ currentState = "chat-comparison"
    /\ states.chat
    /\ \E input \in TextInputs :
          LET message == Trim(input)
              agents == IF chat.sessionData.hasAgents
                        THEN chat.sessionData.selectedAgents ELSE <<>>
              j == Len(jobs) + 1
              withUser == addUserMessage(columns, agents, message, j) IN
          /\ formInput' = <<input>>
          /\ IF chat.isProcessing \/ message = <<>>
             THEN UNCHANGED <<chat, columns, aiStatus, sendDisabled, jobs>>
             ELSE /\ Len(jobs) < MaxJobs
                  /\ chat' = [chat EXCEPT !.isProcessing = TRUE]
                  /\ sendDisabled' = TRUE
                  /\ aiStatus' = <<"processing", "processing">>
                  /\ columns' = [c \in Slots |-> createPlaceholderMessage(withUser[c], j)]
                  /\ jobs' = Append(jobs, NewJob(message, chat.sessionData))
    /\ errorShown' = <<>>
    /\ handoff' = NoHandoff
    /\ UNCHANGED <<currentState, sessionData, states, user, ai, net, headers>>
    /\ UNCHANGED call
    /\ UNCHANGED backendSessions
    /\ polled' = NoPoll
    /\ served' = NoServed
    /\ UNCHANGED app

\* startChatMessage answered with a request id: startTime is taken, the first
\* status request is sent, sendMessageWithStreaming returns and
\* handleMessageSubmit ends
StartOk(j) ==
    /\ jobs[j].phase = "starting"
    /\ jobs' = [jobs EXCEPT ![j].phase = "polling"]
    /\ chat' = [chat EXCEPT !.isProcessing = FALSE]
    /\ sendDisabled' = FALSE
    /\ errorShown' = <<>>
    /\ handoff' = NoHandoff
    /\ UNCHANGED <<currentState, sessionData, states, user, ai, net,
                   columns, aiStatus, headers>>
    /\ UNCHANGED call
    /\ formInput' = <<>>
    /\ UNCHANGED backendSessions
    /\ polled' = NoPoll
    /\ served' = NoServed
    /\ UNCHANGED app

\* startChatMessage failed: the catch of sendMessageWithStreaming, and the
\* catch of handleMessageSubmit when that one raises
StartFail(j) ==
    /\ jobs[j].phase = "starting"
    /\ \E st \in {errorRemaining([cols |-> columns, status |-> aiStatus,
                                  received |-> {}, threw |-> FALSE], j, NetError)} :
          /\ columns' = st.cols
          /\ aiStatus' = IF st.threw THEN <<"error", "error">> ELSE st.status
          /\ errorShown' = IF st.threw
                           THEN showError(<<"Error sending message: ", TypeErrorReplace>>)
                           ELSE <<>>
    /\ jobs' = [jobs EXCEPT ![j].phase = "done", ![j].exit = "start_failed"]
    /\ chat' = [chat EXCEPT !.isProcessing = FALSE]
    /\ sendDisabled' = FALSE
    /\ handoff' = NoHandoff
    /\ UNCHANGED <<currentState, sessionData, states, user, ai, net, headers>>
    /\ UNCHANGED call
    /\ formInput' = <<>>
    /\ UNCHANGED backendSessions
    /\ polled' = NoPoll
    /\ served' = NoServed
    /\ UNCHANGED app

\* status payloads of the backend for a message with the given agents:
\* the keys that have a response, and the reported status
Payloads(agents) ==
    [has : SUBSET Range(agents), status : {"processing", "completed"}]

\* pollForResponses after getChatStatus returned a payload
PollResult(j) ==
    /\ jobs[j].phase = "polling"
    /\ \E payload \in Payloads(jobs[j].agents) :
       \E st1 \in {checkResponse([cols |-> columns, status |-> aiStatus,
                                  received |-> jobs[j].received, threw |-> FALSE],
                                 1, j, jobs[j], payload)} :
       \E st2 \in {checkResponse(st1, 2, j, jobs[j], payload)} :
       \E again \in {~st2.threw /\ ContinuePolling(st2.received, payload.status,
                                                    jobs[j].elapsed)} :
       \E st3 \in {IF st2.threw \/ again \/ Cardinality(st2.received) >= 2
                   THEN st2 ELSE timeoutRemaining(st2, j)} :
       \E st4 \in {IF st3.threw
                   THEN errorRemaining([st3 EXCEPT !.threw = FALSE], j, TypeErrorReplace)
                   ELSE st3} :
          /\ polled' = [job |-> j,
                        fresh |-> {c \in Slots :
                                     SlotReady(jobs[j], c, payload, jobs[j].received)},
                        status |-> payload.status]
          /\ columns' = st4.cols
          /\ aiStatus' = st4.status
          /\ jobs' = [jobs EXCEPT
                ![j].received = st4.received,
                ![j].echo = @ \/ \E c \in jobs[j].received :
                                     jobs[j].agents[c] \in payload.has,
                ![j].due = IF again THEN jobs[j].elapsed + pollInterval ELSE @,
                ![j].phase = IF again THEN "waiting" ELSE "done",
                ![j].exit = IF again THEN "running"
                            ELSE IF st3.threw THEN "threw"
                            ELSE IF Cardinality(st2.received) >= 2 THEN "resolved"
                            ELSE "stopped"]
    /\ errorShown' = <<>>
    /\ handoff' = NoHandoff
    /\ UNCHANGED <<currentState, sessionData, states, user, ai, net,
                   chat, headers, sendDisabled>>
    /\ UNCHANGED call
    /\ formInput' = <<>>
    /\ UNCHANGED backendSessions
    /\ served' = NoServed
    /\ UNCHANGED app

\* pollForResponses after getChatStatus failed: the catch block
\* a catch block that schedules another poll
pollCatch_retry(job) ==
    [job EXCEPT !.phase = "waiting", !.due = job.elapsed + pollInterval]

\* the catch block of pollForResponses: it returns without setTimeout, so
\* the loop is over
pollCatch(job) ==
    [job EXCEPT !.phase = "done", !.exit = "poll_failed"]

PollError(j) ==
    /\ jobs[j].phase = "polling"
    /\ \E st \in {errorRemaining([cols |-> columns, status |-> aiStatus,
                                  received |-> jobs[j].received, threw |-> FALSE],
                                 j, NetError)} :
          /\ columns' = st.cols
          /\ aiStatus' = st.status
    /\ jobs' = [jobs EXCEPT ![j] = pollCatch(@)]
    /\ errorShown' = <<>>
    /\ handoff' = NoHandoff
    /\ UNCHANGED <<currentState, sessionData, states, user, ai, net,
                   chat, headers, sendDisabled>>
    /\ UNCHANGED call
    /\ formInput' = <<>>
    /\ UNCHANGED backendSessions
    /\ polled' = NoPoll
    /\ served' = NoServed
    /\ UNCHANGED app

\* the setTimeout(pollForResponses, pollInterval) timer fires, not before it
\* is due: the next status request is sent
\* a timer callback that gives up when another screen is shown
TimerFire_onScreen(j) ==
    /\ jobs[j].phase = "waiting"
    /\ jobs[j].elapsed >= jobs[j].due
    /\ jobs' = IF currentState = "chat-comparison"
                THEN [jobs EXCEPT ![j].phase = "polling"]
                ELSE [jobs EXCEPT ![j].phase = "done", ![j].exit = "stopped"]
    /\ errorShown' = <<>>
    /\ handoff' = NoHandoff
    /\ UNCHANGED <<currentState, sessionData, states, user, ai, net,
                   chat, columns, aiStatus, headers, sendDisabled>>
    /\ UNCHANGED call
    /\ formInput' = <<>>
    /\ UNCHANGED backendSessions
    /\ polled' = NoPoll
    /\ served' = NoServed
    /\ UNCHANGED app

\* setTimeout(pollForResponses, pollInterval): the callback, on any screen
TimerFire(j) ==
    /\ jobs[j].phase = "waiting"
    /\ jobs[j].elapsed >= jobs[j].due
    /\ jobs' = [jobs EXCEPT ![j].phase = "polling"]
    /\ errorShown' = <<>>
    /\ handoff' = NoHandoff
    /\ UNCHANGED <<currentState, sessionData, states, user, ai, net,
                   chat, columns, aiStatus, headers, sendDisabled>>
    /\ UNCHANGED call
    /\ formInput' = <<>>
    /\ UNCHANGED backendSessions
    /\ polled' = NoPoll
    /\ served' = NoServed
    /\ UNCHANGED app

\* a message whose polling goes on and whose budget is not yet used up
InBudget(job) ==
    job.phase \in {"polling", "waiting"} /\ job.elapsed < maxWaitTime

\* time passes: Date.now() advances by TickStep for every message in its budget
Tick ==
    /\ \E j \in 1..Len(jobs) : InBudget(jobs[j])
    /\ jobs' = [j \in 1..Len(jobs) |->
                  IF InBudget(jobs[j])
                  THEN [jobs[j] EXCEPT !.elapsed = @ + TickStep]
                  ELSE jobs[j]]
    /\ errorShown' = <<>>
    /\ handoff' = NoHandoff
    /\ UNCHANGED <<currentState, sessionData, states, user, ai, net,
                   chat, columns, aiStatus, headers, sendDisabled>>
    /\ UNCHANGED call
    /\ formInput' = <<>>
    /\ UNCHANGED backendSessions
    /\ polled' = NoPoll
    /\ served' = NoServed
    /\ UNCHANGED app

\* time passes while a startChatMessage request is unanswered: Date.now()
\* advances by TickStep for every message that is being started or polled
Starting(job) == job.phase = "starting" /\ job.waited < maxWaitTime
TickStarting ==
    /\ \E j \in 1..Len(jobs) : Starting(jobs[j])
    /\ jobs' = [j \in 1..Len(jobs) |->
                  IF Starting(jobs[j])
                  THEN [jobs[j] EXCEPT !.waited = @ + TickStep]
                  ELSE IF InBudget(jobs[j])
                  THEN [jobs[j] EXCEPT !.elapsed = @ + TickStep]
                  ELSE jobs[j]]
    /\ errorShown' = <<>>
    /\ handoff' = NoHandoff
    /\ UNCHANGED <<currentState, sessionData, states, user, ai, net,
                   chat, columns, aiStatus, headers, sendDisabled>>
    /\ UNCHANGED call
    /\ formInput' = <<>>
    /\ UNCHANGED backendSessions
    /\ polled' = NoPoll
    /\ served' = NoServed
    /\ UNCHANGED app

(* ---- APIClient ------------------------------------------------------- *)
\* endpoints the operations of APIClient pass to request
Endpoints == {"/sessions", "/ai-selection", "/chat", "/chat/start",
              "/chat/status/r1", "/health"}
HttpStatuses == {200, 201, 204, 299, 300, 400, 404, 422, 500, 503}
StatusTexts == {"", "Not Found"}
\* the detail field of a JSON object: absent, a string, or a list of
\* objects (text is what the server says in it)
NoDetail == [type |-> "absent", text |-> <<>>]
Details == {NoDetail,
            [type |-> "string", text |-> <<>>],
            [type |-> "string", text |-> <<"Session not found">>],
            [type |-> "list", text |-> <<"field required">>]}
\* the string a value converts to when it is made the message of an Error
String(detail) ==
    IF detail.type = "list" THEN <<"[object Object]">> ELSE detail.text
\* response bodies: text that is no JSON (the empty body too), the JSON
\* value null, a JSON object
NoBody == [kind |-> "none", detail |-> NoDetail]
Bodies == {[kind |-> "text", detail |-> NoDetail], [kind |-> "null", detail |-> NoDetail]}
          \cup {[kind |-> "object", detail |-> d] : d \in Details}
Responses == [status : HttpStatuses, statusText : StatusTexts, body : Bodies]
NoResponse == [status |-> 0, statusText |-> "", body |-> NoBody]
SyntaxErrorJson == "Unexpected token in JSON"
TypeErrorDetail == "Cannot read properties of null (reading 'detail')"

\* response.ok
ok(response) == response.status \in 200..299
\* what request does: return a value or throw an Error
Return(body) == [kind |-> "return", body |-> body, message |-> <<>>]
Throw(message) == [kind |-> "throw", body |-> NoBody, message |-> message]
NoOutcome == [kind |-> "none", body |-> NoBody, message |-> <<>>]
\* truthiness of errorData.detail
Truthy(detail) ==
    detail.type = "list" \/ (detail.type = "string" /\ detail.text # <<>>)

\* APIClient.request, from the response of fetch on
request(response) ==
    IF ~ok(response)
    THEN LET errorData == IF response.body.kind = "text"
                          THEN [kind |-> "object", detail |-> NoDetail]
                          ELSE response.body IN
         IF errorData.kind = "null" THEN Throw(<<TypeErrorDetail>>)
         ELSE IF Truthy(errorData.detail) THEN Throw(String(errorData.detail))
         ELSE Throw(<<"HTTP ", ToString(response.status), ": ", response.statusText>>)
    ELSE IF response.body.kind = "text" THEN Throw(<<SyntaxErrorJson>>)
    ELSE Return(response.body)

NoCall == [phase |-> "idle", endpoint |-> "", response |-> NoResponse,
           outcome |-> NoOutcome]
restOfApp == <<currentState, sessionData, states, errorShown, formInput, user, ai,
               net, handoff, chat, columns, aiStatus, headers, sendDisabled, jobs,
               backendSessions, polled, served, app>>

\* an operation of APIClient calls request: fetch is issued
ApiCall ==
    /\ call.phase = "idle"
    /\ \E endpoint \in Endpoints :
          call' = [NoCall EXCEPT !.phase = "fetching", !.endpoint = endpoint]
    /\ UNCHANGED restOfApp

\* fetch resolves with a response
ApiResponse ==
    /\ call.phase = "fetching"
    /\ \E response \in Responses :
          call' = [call EXCEPT !.phase = "settled", !.response = response,
                               !.outcome = request(response)]
    /\ UNCHANGED restOfApp

\* fetch rejects: the error is thrown on
ApiReject ==
    /\ call.phase = "fetching"
    /\ call' = [call EXCEPT !.phase = "settled", !.outcome = Throw(<<NetError>>)]
    /\ UNCHANGED restOfApp

\* the caller has taken the outcome
ApiSettled ==
    /\ call.phase = "settled"
    /\ call' = NoCall
    /\ UNCHANGED restOfApp

(* ---- ChatbotApp: start-up -------------------------------------------- *)
requiredClasses ==
    {"UIUtils", "UserSelectionState", "AISelectionState", "ChatComparisonState",
     "StateManager"}
\* the globals start-up looks for: the classes and window.apiClient
Components == requiredClasses \cup {"apiClient"}
\* the globals each script of the page defines when it has run:
\* StateManager.js defines StateManager and UIUtils, each state file its class
Scripts ==
    {{"StateManager", "UIUtils"}, {"UserSelectionState"}, {"AISelectionState"},
     {"ChatComparisonState"}}
\* api.js sets window.apiClient before it constructs the ChatbotApp
OwnGlobals == {"apiClient"}
maxWait == 5000
checkInterval == 100
\* apiClient.healthCheck(): status healthy, another status, or a throw
HealthOutcomes == {"healthy", "unhealthy", "threw"}

\* new ChatbotApp(): start() is waiting for the scripts
BootApp(loaded) ==
    [phase |-> "waiting", loaded |-> loaded, waited |-> 0, health |-> "none",
     stateManager |-> FALSE, initialized |-> FALSE, takeover |-> <<>>]
\* the application once start() has returned normally
StartedApp ==
    [phase |-> "started", loaded |-> Components, waited |-> 0, health |-> "healthy",
     stateManager |-> TRUE, initialized |-> TRUE, takeover |-> <<>>]

\* requiredClasses.filter(className => !window[className])
Missing(loaded) == requiredClasses \ loaded
\* missing.length === 0 && window.apiClient
ScriptsReady(loaded) == Missing(loaded) = {} /\ "apiClient" \in loaded

\* a wait that never gives up
waitExpired_never(waited) == FALSE

\* waited >= maxWait
waitExpired(waited) == waited >= maxWait

\* checkDependencies: the message of the error it throws, <<>> when none
checkDependencies(loaded) ==
    IF Missing(loaded) # {}
    THEN <<"Missing required classes: ", Missing(loaded)>>
    ELSE IF "apiClient" \notin loaded
    THEN <<"API client not initialized">>
    ELSE <<>>

\* a health check whose failure is passed on to start()
performHealthCheck_rethrow(outcome) ==
    IF outcome = "healthy" THEN <<>> ELSE <<"Backend service is not healthy">>

\* performHealthCheck: the message of the error it throws, <<>> when none;
\* an unhealthy status and a failed request are caught and logged
performHealthCheck(outcome) == <<>>

\* showInitializationError: the takeover with the error's message
showInitializationError(a, message) ==
    [a EXCEPT !.phase = "failed", !.takeover = message]

\* everything but the start-up
underStart == <<currentState, sessionData, states, errorShown, formInput, user, ai,
                net, handoff, chat, columns, aiStatus, headers, sendDisabled, jobs,
                call, backendSessions, polled, served>>

\* a script of the page finishes loading and defines its global
ScriptLoads ==
    /\ app.phase \in {"waiting", "failed"}
    /\ \E script \in Scripts :
          /\ ~(script \subseteq app.loaded)
          /\ app' = [app EXCEPT !.loaded = @ \cup script]
    /\ UNCHANGED underStart

\* one run of checkScripts in waitForScripts; when it resolves, start() goes
\* on with checkDependencies and sends the health check
CheckScripts ==
    /\ app.phase = "waiting"
    /\ app' = IF ScriptsReady(app.loaded)
              THEN IF checkDependencies(app.loaded) = <<>>
                   THEN [app EXCEPT !.phase = "health"]
                   ELSE showInitializationError(app, checkDependencies(app.loaded))
              ELSE IF waitExpired(app.waited + checkInterval)
                   THEN showInitializationError(
                            [app EXCEPT !.waited = @ + checkInterval],
                            <<"Timeout waiting for scripts. Missing: ",
                              Missing(app.loaded)>>)
                   ELSE [app EXCEPT !.waited = @ + checkInterval]
    /\ UNCHANGED underStart

\* the health check is answered; start() creates the StateManager and marks
\* the application initialized unless performHealthCheck threw
HealthChecked ==
    /\ app.phase = "health"
    /\ \E outcome \in HealthOutcomes :
          app' = IF performHealthCheck(outcome) = <<>>
                 THEN [app EXCEPT !.phase = "started", !.health = outcome,
                                  !.stateManager = TRUE, !.initialized = TRUE]
                 ELSE showInitializationError([app EXCEPT !.health = outcome],
                                              performHealthCheck(outcome))
    /\ UNCHANGED underStart

(* ---- construction ----------------------------------------------------- *)
\* new StateManager(): user-selection shown, the sessions being loaded
\* the application after construction, with a backend that holds ids
InitWith(ids) ==
    /\ backendSessions = ids
    /\ polled = NoPoll
    /\ served = NoServed
    /\ currentState = "user-selection"
    /\ sessionData = EmptyData
    /\ states = [ai |-> FALSE, chat |-> FALSE]
    /\ errorShown = <<>>
    /\ user = [sessions |-> <<>>, selectedSession |-> NoId]
    /\ ai = NewAI
    /\ net = SetToBag({Req("get_sessions", NoId, NoKey)})
    /\ handoff = NoHandoff
    /\ chat = [sessionData |-> EmptyData, isProcessing |-> FALSE]
    /\ columns = <<<<>>, <<>>>>
    /\ aiStatus = <<"ready", "ready">>
    /\ headers = <<"AI Model 1", "AI Model 2">>
    /\ sendDisabled = FALSE
    /\ jobs = <<>>
    /\ call = NoCall
    /\ formInput = <<>>

Init == InitWith({"s1"}) /\ app = StartedApp
InitTwo == InitWith(SessionIds) /\ app = StartedApp

\* session and agent selection, and the navigation between the screens
NextSel ==
    \/ BackToUser
    \/ BackToAI
    \/ NewSession
    \/ LoadSessionsResp
    \/ HandleNewSession
    \/ CreateSessionResp
    \/ SelectSession
    \/ SelectSessionResp
    \/ AvailableAgentsResp
    \/ SelectFirstAgent
    \/ SelectFirstResp
    \/ SecondOptionsResp
    \/ SelectSecondAgent
    \/ SelectSecondResp

SpecSel == Init /\ [][NextSel]_vars
\* the same with two sessions on the backend
SpecTwo == InitTwo /\ [][NextSel]_vars
\* the same as SpecSel with navigation while a selection request is unanswered
SpecBusy == Init /\ [][NextSel \/ BackToUserBusy \/ NewSessionBusy]_vars

\* the chat screen right after the first transitionToChatComparison
ChatPairs == {<<"a", "b">>, <<"a">>}
InitChat ==
    /\ app = StartedApp
    /\ backendSessions = {"s1"}
    /\ polled = NoPoll
    /\ served = NoServed
    /\ currentState = "chat-comparison"
    /\ \E pair \in ChatPairs :
          /\ sessionData = [session_id |-> "s1", hasAgents |-> TRUE, selectedAgents |-> pair]
          /\ chat = [sessionData |-> sessionData, isProcessing |-> FALSE]
          /\ headers = updateAIHeaders(sessionData, <<"AI Model 1", "AI Model 2">>)
          /\ handoff = [first |-> "a", second |-> "b", pair |-> pair, answer |-> "ready"]
    /\ states = [ai |-> TRUE, chat |-> TRUE]
    /\ errorShown = <<>>
    /\ user = [sessions |-> <<"s1">>, selectedSession |-> "s1"]
    /\ ai = [availableAgents |-> <<"a", "b">>, sessionId |-> "s1",
             firstCards |-> <<"a", "b">>, firstSel |-> "a", firstDisabled |-> {},
             secondCards |-> <<"a", "b">>, secondSel |-> "b", secondDisabled |-> {"a"},
             firstDone |-> {"s1"}]
    /\ net = EmptyBag
    /\ columns = <<<<>>, <<>>>>
    /\ aiStatus = <<"ready", "ready">>
    /\ sendDisabled = FALSE
    /\ jobs = <<>>
    /\ call = NoCall
    /\ formInput = <<>>

\* the messages of a chat, and the reset that clears it
NextChat ==
    \/ HandleMessageSubmit
    \/ \E j \in 1..Len(jobs) : StartOk(j)
    \/ \E j \in 1..Len(jobs) : StartFail(j)
    \/ \E j \in 1..Len(jobs) : PollResult(j)
    \/ \E j \in 1..Len(jobs) : PollError(j)
    \/ \E j \in 1..Len(jobs) : TimerFire(j)
    \/ Tick
    \/ NewSession

SpecChat == InitChat /\ [][NextChat]_vars
\* the same with startChatMessage requests that take time
SpecChatSlow == InitChat /\ [][NextChat \/ TickStarting]_vars

\* the calls of APIClient.request
NextApi ==
    \/ ApiCall
    \/ ApiResponse
    \/ ApiReject
    \/ ApiSettled

SpecApi == Init /\ [][NextApi]_vars

\* start-up of the page, from any set of scripts already loaded when start()
\* runs; the StateManager's variables hold the values its constructor gives
\* them, app.stateManager tells whether the instance exists
InitBoot ==
    /\ InitWith({"s1"})
    /\ app \in {BootApp(OwnGlobals \cup UNION done) : done \in SUBSET Scripts}
NextBoot == ScriptLoads \/ CheckScripts \/ HealthChecked
SpecBoot == InitBoot /\ [][NextBoot]_vars

Next ==
    \/ NextSel
    \/ BackToUserBusy
    \/ NewSessionBusy
    \/ NextChat
    \/ TickStarting
    \/ NextApi
    \/ NextBoot

Spec == Init /\ [][Next]_vars

(* ======================================================================= *)
(* Properties                                                              *)
(* ======================================================================= *)
JobIds == 1..Len(jobs)
Elements(col) == {col[i] : i \in 1..Len(col)}
\* the elements a resolved slot shows
SuccessEntry(j, key) == createMessage(Response(key), "assistant", ServerMeta(key), j)
TimeoutEntry(j) == createMessage(<<"Request timeout">>, "assistant", TimeoutMeta, j)
ErrorEntry(j) == createMessage(<<"Error: ", NetError>>, "assistant", ErrorMeta, j)
\* a slot of message j is still Pending
Unresolved(j) == \E c \in Slots : Attached(columns, c, j)
NoDuplicates(seq) == \A i, k \in 1..Len(seq) : i # k => seq[i] # seq[k]

\* C1: while a message has a Pending slot, no second message is accepted
\* (at most one message has Pending slots) and the submit control stays
\* disabled.
C1_SecondSubmitRejected ==
    LET open == {j \in JobIds : Unresolved(j)} IN
    /\ Cardinality(open) <= 1
    /\ open # {} => sendDisabled /\ chat.isProcessing

\* C2: a slot leaves Pending at most once and stays as resolved: the received
\* mark of a slot is never withdrawn, a message never has more than one
\* element per column, and the element shown for a resolved slot is not
\* altered by any later step (it only disappears when the whole column is
\* cleared).
C2_ResolvedSlotStays ==
    [][\A c \in Slots :
          /\ \A j \in JobIds : c \in jobs[j].received => c \in jobs'[j].received
          /\ \A j \in 1..Len(jobs') :
                Cardinality({i \in 1..Len(columns'[c]) :
                                /\ columns'[c][i].job = j
                                /\ columns'[c][i].kind # "user"}) <= 1
          /\ \/ columns'[c] = <<>>
             \/ \A i \in 1..Len(columns[c]) :
                   columns[c][i].kind = "assistant"
                   => Len(columns'[c]) >= i /\ columns'[c][i] = columns[c][i]]_vars

\* C2 witness: a slot shows its response, and a later payload held that
\* agent's key again.
C2_Witness ==
    \E j \in JobIds : \E c \in jobs[j].received :
       /\ jobs[j].echo
       /\ SuccessEntry(j, jobs[j].agents[c]) \in Elements(columns[c])

\* C3: the step in which a message ends with both responses received leaves
\* two Success elements, no placeholder in either column, and the controller
\* idle (isProcessing false, submit enabled).
C3_BothRespond ==
    [][\A j \in JobIds :
          /\ jobs[j].phase = "polling"
          /\ jobs'[j].phase = "done"
          /\ jobs'[j].received = {1, 2}
          => /\ \A c \in Slots :
                   /\ SuccessEntry(j, jobs[j].agents[c]) \in Elements(columns'[c])
                   /\ \A e \in Elements(columns'[c]) : e.kind # "placeholder"
             /\ ~chat'.isProcessing
             /\ ~sendDisabled']_vars

\* the step in which the polling of message j ends with no response received,
\* the budget being used up
TimedOutEmpty(j) ==
    /\ jobs[j].phase = "polling"
    /\ jobs'[j].phase = "done"
    /\ jobs'[j].received = {}
    /\ jobs[j].elapsed >= maxWaitTime

TimeoutShown(j) ==
    \A c \in Slots :
       /\ TimeoutEntry(j) \in Elements(columns'[c])
       /\ ~Attached(columns', c, j)
       /\ aiStatus'[c] = "error"

\* C4 as claimed: when the 60 s have passed without a response of either
\* agent, both slots become Failed "Request timeout" with metadata 30 s,
\* cost 0, error, and both status indicators become error.
C4_TimeoutBoth ==
    [][\A j \in JobIds : TimedOutEmpty(j) => TimeoutShown(j)]_vars

\* C4 amended: the same, when the status poll that ends the polling returned
\* a payload (it did not fail) and the placeholders are still in their columns.
C4_TimeoutBothAmended ==
    [][\A j \in JobIds :
          /\ TimedOutEmpty(j)
          /\ jobs'[j].exit # "poll_failed"
          /\ \A c \in Slots : Attached(columns, c, j)
          => TimeoutShown(j)]_vars

C4_Witness ==
    \E j \in JobIds :
       /\ jobs[j].exit = "stopped" /\ jobs[j].received = {}
       /\ jobs[j].elapsed >= maxWaitTime
       /\ \A c \in Slots : TimeoutEntry(j) \in Elements(columns[c])
       /\ aiStatus = <<"error", "error">>

\* the step in which the polling of message j ends, slot c alone received
EndsWithOnly(j, c) ==
    /\ jobs[j].phase = "polling"
    /\ jobs'[j].phase = "done"
    /\ jobs'[j].received = {c}

OneShown(j, c) ==
    /\ SuccessEntry(j, jobs[j].agents[c]) \in Elements(columns'[c])
    /\ c \in jobs[j].received => columns'[c] = columns[c]
    /\ TimeoutEntry(j) \in Elements(columns'[3 - c])
    /\ TimeoutEntry(j).meta.cost_usd = 0

\* C5 as claimed: when only one agent's response ever appears, its column
\* shows the response with the server's metadata, the other column shows a
\* timeout failure with cost 0, and the timeout leaves the success untouched.
C5_OneResponds ==
    [][\A j \in JobIds : \A c \in Slots : EndsWithOnly(j, c) => OneShown(j, c)]_vars

\* C5 amended: the same, when the status poll that ends the polling returned
\* a payload and the other placeholder is still in its column.
C5_OneRespondsAmended ==
    [][\A j \in JobIds : \A c \in Slots :
          /\ EndsWithOnly(j, c)
          /\ jobs'[j].exit # "poll_failed"
          /\ Attached(columns, 3 - c, j)
          => OneShown(j, c)]_vars

C5_Witness ==
    \E j \in JobIds :
       /\ jobs[j].exit = "stopped" /\ jobs[j].received = {1}
       /\ SuccessEntry(j, jobs[j].agents[1]) \in Elements(columns[1])
       /\ TimeoutEntry(j) \in Elements(columns[2])

\* the step in which startChatMessage of message j fails
StartFails(j) == jobs[j].phase = "starting" /\ jobs'[j].phase = "done"

FailureShown(j) ==
    \A c \in Slots :
       ErrorEntry(j) \in Elements(columns'[c]) /\ ~Attached(columns', c, j)

StartFailureRest(j) ==
    /\ aiStatus' = <<"error", "error">>
    /\ ~chat'.isProcessing
    /\ ~sendDisabled'

C7_PlaceholdersFirst ==
    [][Len(jobs') = Len(jobs) + 1 =>
          LET j == Len(jobs') IN
          /\ jobs'[j].phase = "starting"
          /\ jobs'[j].message # <<>> /\ Trim(jobs'[j].message) = jobs'[j].message
          /\ \A c \in Slots :
                c <= Len(jobs'[j].agents) =>
                   /\ columns'[c] =
                         columns[c] \o <<createMessage(jobs'[j].message, "user", NoMeta, j),
                                         Placeholder(j)>>
                   /\ Cardinality({i \in 1..Len(columns'[c]) :
                                      columns'[c][i] = Placeholder(j)}) = 1]_vars

C7_Witness ==
    \E j \in JobIds :
       /\ jobs[j].phase = "starting"
       /\ Len(jobs[j].agents) = 2
       /\ \A c \in Slots :
             /\ Len(columns[c]) >= 2
             /\ columns[c][Len(columns[c])] = Placeholder(j)
             /\ columns[c][Len(columns[c]) - 1].kind = "user"

\* C8: when x was selected first and y second (x # y) and the coordinator is
\* handed x and y, it is handed them as (x, y); the chat then keeps x for
\* column ai-1 and y for column ai-2.
C8_PairInSelectionOrder ==
    /\ handoff.first \in Keys
    /\ handoff.second \in Keys
    /\ handoff.first # handoff.second
    /\ Range(handoff.pair) = {handoff.first, handoff.second}
    => /\ handoff.pair = <<handoff.first, handoff.second>>
       /\ currentState = "chat-comparison"
          => /\ chat.sessionData.selectedAgents = <<handoff.first, handoff.second>>
             /\ headers = <<handoff.first, handoff.second>>

C10_ChatNeedsSessionAndPair ==
    currentState = "chat-comparison"
    => /\ sessionData.session_id # NoId
       /\ sessionData.hasAgents
       /\ Len(sessionData.selectedAgents) = 2

\* a step that answers a request to create or to select a session
SessionAnswered ==
    \E r \in BagToSet(net) :
       /\ r.op \in {"create", "select"}
       /\ CopiesIn(r, net') < CopiesIn(r, net)

\* C11: when the answer to a session request leaves the session data
\* without a session id (transitionToAISelection, if called, finds none), an
\* error is shown, the screen and the agent-selection controller are
\* untouched and no request is sent; the error "No session selected" is
\* shown only then; and the screen ai-selection is only shown while a
\* session id is held.
C11_AISelectionNeedsSession ==
    [][/\ SessionAnswered /\ sessionData'.session_id = NoId
          => /\ errorShown' # <<>>
             /\ currentState' = currentState
             /\ states' = states
             /\ ai' = ai
             /\ BagCardinality(net') = BagCardinality(net) - 1
       /\ errorShown' = showError(<<"No session selected">>)
          => sessionData'.session_id = NoId /\ currentState' = currentState
       /\ currentState' = "ai-selection" => sessionData'.session_id # NoId]_vars

\* C11 witness: transitionToAISelection has refused for want of a session id
C11_Witness ==
    /\ errorShown = showError(<<"No session selected">>)
    /\ sessionData.session_id = NoId
    /\ currentState = "user-selection"

\* the step is a run of resetToUserSelection: it alone reloads the sessions twice
ResetStep == Reloads' = Reloads + 2

C13_ReadyFlagRequired ==
    [][handoff'.answer # "none" =>
          /\ handoff'.answer # "ready" =>
                /\ errorShown' # <<>>
                /\ sessionData' = sessionData
                /\ currentState' = currentState
                /\ states' = states
                /\ chat' = chat
          /\ sessionData' # sessionData \/ currentState' # currentState
                => /\ handoff'.answer = "ready"
                   /\ sessionData'.selectedAgents = handoff'.pair]_vars

\* C13 witness: the answer lacked the ready flag and nothing was stored
C13_Witness ==
    /\ handoff.answer = "not ready"
    /\ errorShown = showError(<<"Error selecting second agent">>)
    /\ currentState = "ai-selection"
    /\ ~sessionData.hasAgents

\* a run of request that got an HTTP response
Responded == call.phase = "settled" /\ call.response # NoResponse

\* C14 as claimed: on a 2xx response request returns the body; on any other
\* response it throws, with the detail of the body as message when the body
\* carries a non-empty one and a message starting with "HTTP <status>"
\* otherwise.
C14_UniformErrors ==
    Responded =>
       IF ok(call.response)
       THEN call.outcome = Return(call.response.body)
       ELSE /\ call.outcome.kind = "throw"
            /\ IF Truthy(call.response.body.detail)
               THEN call.outcome.message = call.response.body.detail.text
               ELSE /\ Len(call.outcome.message) >= 2
                    /\ SubSeq(call.outcome.message, 1, 2) =
                          <<"HTTP ", ToString(call.response.status)>>

\* requests issued by a step, and a step that handles a failed answer
Issued(r) == CopiesIn(r, net') - CopiesIn(r, net)
FailureHandled ==
    /\ \E r \in BagToSet(net) : CopiesIn(r, net') < CopiesIn(r, net)
    /\ errorShown' # <<>>

\* C15: no step issues the same backend request more than once, and a step
\* that handles a failed answer issues no request at all (selection requests
\* and chat starts alike); only the status poll is repeated.
C15_NoAutomaticRetry ==
    [][/\ \A r \in BagToSet(net') : Issued(r) <= 1
       /\ Len(jobs') <= Len(jobs) + 1
       /\ FailureHandled =>
             /\ \A r \in BagToSet(net') : Issued(r) <= 0
             /\ Len(jobs') = Len(jobs)]_vars

\* text that holds nothing but whitespace
Blank(s) == Range(s) \subseteq {" "}

\* a submission of the new-session form with a blank name or project title
BlankSubmitted ==
    /\ Len(formInput') = 2
    /\ (Blank(formInput'[1]) \/ Blank(formInput'[2]))

\* C16: handleNewSession with a name or a project title that is blank after
\* trimming shows the validation error and issues no request, selects no
\* session and leaves the coordinator's session data and current state alone;
\* a create request is only issued for two non-blank fields.
C16_BlankFieldsRejected ==
    [][/\ BlankSubmitted =>
             /\ errorShown' = showError(<<"Please fill in all fields.">>)
             /\ net' = net
             /\ user' = user
             /\ sessionData' = sessionData
             /\ currentState' = currentState
       /\ Issued(Req("create", NoId, NoKey)) > 0 =>
             /\ Len(formInput') = 2
             /\ ~BlankSubmitted]_vars

\* C16 witness: the form was submitted with a name of whitespace only
C16_Witness ==
    /\ formInput = <<<<" ">>, <<" ", "h", "i", " ">>>>
    /\ errorShown = showError(<<"Please fill in all fields.">>)
    /\ Pending("create") = {}

\* a submission of the message form with input that is blank after trimming
EmptySubmitted == Len(formInput') = 1 /\ Blank(formInput'[1])

\* C17: handleMessageSubmit with empty or whitespace-only input changes
\* nothing: no request and no chat job, no entry appended to a column,
\* isProcessing, the send button and both status indicators as before.
C17_EmptyInputIgnored ==
    [][EmptySubmitted =>
          /\ net' = net
          /\ jobs' = jobs
          /\ columns' = columns
          /\ chat' = chat
          /\ aiStatus' = aiStatus
          /\ sendDisabled' = sendDisabled
          /\ headers' = headers
          /\ <<currentState, sessionData, states>>' = <<currentState, sessionData, states>>]_vars

\* C17 witness: whitespace was submitted after an exchange that ended
C17_Witness ==
    /\ formInput = <<<<" ">>>>
    /\ Len(jobs) = 1
    /\ jobs[1].phase = "done"
    /\ ~chat.isProcessing

\* C18: a select_second request for a session id is only sent after a
\* select_first request for that session id has succeeded.
C18_SecondAfterFirst ==
    [][\A r \in BagToSet(net') :
          r.op = "select_second" /\ Issued(r) > 0 => r.sid \in ai.firstDone]_vars

\* C19: when a status poll returns, the next poll is scheduled only if fewer
\* than two slots are resolved, the reported status is not completed and less
\* than maxWaitTime has elapsed; a status request is only sent by the start
\* of the job or by that timer, and a job whose polling ended is never
\* polled again.
C19_PollAgainOnlyIf ==
    [][\A j \in 1..Len(jobs) :
          /\ jobs[j].phase = "polling" /\ jobs'[j].phase = "waiting"
             => /\ Cardinality(jobs'[j].received) < 2
                /\ polled'.job = j
                /\ polled'.status # "completed"
                /\ jobs'[j].elapsed < maxWaitTime
          /\ jobs[j].phase # "polling" /\ jobs'[j].phase = "polling"
             => jobs[j].phase \in {"starting", "waiting"}
          /\ jobs[j].phase = "done" => jobs'[j].phase = "done"]_vars

\* C19 witness: a poll returned with one slot resolved and the job still
\* processing, and the next poll is scheduled
C19_Witness ==
    \E j \in 1..Len(jobs) :
       /\ jobs[j].phase = "waiting"
       /\ polled = [job |-> j, fresh |-> {1}, status |-> "processing"]
       /\ Cardinality(jobs[j].received) = 1

\* the step in which a status poll of message j returns and the polling
\* stops, the job being reported completed or the budget being used up
FinalPoll(j) ==
    /\ jobs[j].phase = "polling"
    /\ jobs'[j].phase = "done"
    /\ polled'.job = j
    /\ (polled'.status = "completed" \/ jobs[j].elapsed >= maxWaitTime)
\* slot c was not resolved before that poll; its response is in the payload
OpenSlot(j, c) == c \notin jobs[j].received
InPayload(j, c) == c \in polled'.fresh
\* what the column of slot c shows after the step
TimedOut(j, c) ==
    /\ TimeoutEntry(j) \in Elements(columns'[c])
    /\ TimeoutEntry(j).meta = TimeoutMeta
    /\ ~Attached(columns', c, j)
    /\ aiStatus'[c] = "error"
Succeeded(j, c) ==
    /\ SuccessEntry(j, jobs[j].agents[c]) \in Elements(columns'[c])
    /\ TimeoutEntry(j) \notin Elements(columns'[c])
    /\ ~Attached(columns', c, j)
    /\ c \in jobs'[j].received

\* C20 as claimed: when the polling stops on a completed job or a used-up
\* budget, every slot not yet resolved whose response is not in that poll's
\* payload becomes Failed "Request timeout" with metadata 30 s, cost 0, error
\* and status error, and every such slot whose response is in the payload
\* becomes Success.
C20_CompletedWithoutResponse ==
    [][\A j \in JobIds : \A c \in Slots :
          FinalPoll(j) /\ OpenSlot(j, c)
          => IF InPayload(j, c) THEN Succeeded(j, c) ELSE TimedOut(j, c)]_vars

\* C20 amended: the same for the slots whose placeholder is still in its
\* column when the poll returns.
C20_CompletedWithoutResponseAmended ==
    [][\A j \in JobIds : \A c \in Slots :
          FinalPoll(j) /\ OpenSlot(j, c) /\ Attached(columns, c, j)
          => IF InPayload(j, c) THEN Succeeded(j, c) ELSE TimedOut(j, c)]_vars

\* C20 witness: within the budget a poll reported the job completed with the
\* response of the first agent only; slot 1 shows it, slot 2 the timeout
C20_Witness ==
    \E j \in JobIds :
       /\ polled = [job |-> j, fresh |-> {1}, status |-> "completed"]
       /\ jobs[j].phase = "done"
       /\ jobs[j].elapsed < maxWaitTime
       /\ jobs[j].received = {1}
       /\ SuccessEntry(j, jobs[j].agents[1]) \in Elements(columns[1])
       /\ TimeoutEntry(j) \in Elements(columns[2])
       /\ aiStatus[2] = "error"

\* the step in which a status request of message j fails
PollFails(j) ==
    /\ jobs[j].phase = "polling"
    /\ jobs'[j].exit = "poll_failed"
\* what the failure leaves in slot c
ErrorResolved(j, c) ==
    /\ ErrorEntry(j) \in Elements(columns'[c])
    /\ ErrorEntry(j).meta = ErrorMeta
    /\ ~Attached(columns', c, j)
    /\ aiStatus'[c] = "error"
Untouched(c) == columns'[c] = columns[c] /\ aiStatus'[c] = aiStatus[c]

\* C21 as claimed: when a status request fails, every slot not yet resolved
\* becomes Failed with the error's message and metadata 0 s, cost 0, error,
\* status error; the resolved slots are left as they are; the polling of the
\* message has ended.
C21_PollErrorFailsRest ==
    [][\A j \in JobIds : PollFails(j) =>
          /\ jobs'[j].phase = "done"
          /\ \A c \in Slots :
                IF c \in jobs[j].received THEN Untouched(c) ELSE ErrorResolved(j, c)]_vars

\* C21 amended: the same for the slots not yet resolved whose placeholder is
\* still in its column, when no placeholder of the message was removed.
C21_PollErrorFailsRestAmended ==
    [][\A j \in JobIds : PollFails(j) =>
          /\ jobs'[j].phase = "done"
          /\ \A c \in Slots :
                /\ c \in jobs[j].received => Untouched(c)
                /\ c \notin jobs[j].received
                   /\ (\A d \in Slots \ jobs[j].received : Attached(columns, d, j))
                   => ErrorResolved(j, c)]_vars

\* C21 witness: a status request failed after the first slot had been
\* resolved; slot 1 shows the response, slot 2 the error
C21_Witness ==
    \E j \in JobIds :
       /\ jobs[j].exit = "poll_failed"
       /\ jobs[j].received = {1}
       /\ SuccessEntry(j, jobs[j].agents[1]) \in Elements(columns[1])
       /\ ErrorEntry(j) \in Elements(columns[2])
       /\ aiStatus = <<"ready", "error">>

\* Every request of a message is answered or fails, every poll timer fires,
\* and time passes.
ChatFairness ==
    /\ \A j \in 1..MaxJobs :
          /\ WF_vars(j \in JobIds /\ (StartOk(j) \/ StartFail(j)))
          /\ WF_vars(j \in JobIds /\ (PollResult(j) \/ PollError(j)))
          /\ WF_vars(j \in JobIds /\ TimerFire(j))
    /\ WF_vars(Tick)

SpecChatLive == SpecChat /\ ChatFairness

\* slot c of message j shows a terminal outcome: a response or a failure
Terminal(cols, c, j) ==
    \E e \in Elements(cols[c]) : e.job = j /\ e.kind = "assistant"

\* C22 as claimed: once a message is accepted, each of its slots eventually
\* shows a terminal outcome, and no placeholder stays in a column forever.
C22_EveryJobTerminates ==
    \A j \in 1..MaxJobs : \A c \in Slots :
       /\ (Len(jobs) >= j /\ jobs[j].phase = "starting") ~> Terminal(columns, c, j)
       /\ Attached(columns, c, j) ~> ~Attached(columns, c, j)

\* C22 amended: the polling of every accepted message eventually ends and no
\* placeholder stays in a column forever; a placeholder leaves its column by
\* being replaced with a terminal outcome or by the clearing of the column.
C22_EveryJobTerminatesAmended ==
    /\ \A j \in 1..MaxJobs : \A c \in Slots :
          /\ (Len(jobs) >= j) ~> (Len(jobs) >= j /\ jobs[j].phase = "done")
          /\ Attached(columns, c, j) ~> ~Attached(columns, c, j)
    /\ [][\A j \in JobIds : \A c \in Slots :
             Attached(columns, c, j) /\ ~Attached(columns', c, j)
             => Terminal(columns', c, j) \/ columns'[c] = <<>>]_vars

\* C22 witness: a message ended with one slot Success and the other Failed
C22_Witness ==
    \E j \in JobIds :
       /\ jobs[j].phase = "done"
       /\ \A c \in Slots : Terminal(columns, c, j) /\ ~Attached(columns, c, j)
       /\ SuccessEntry(j, jobs[j].agents[1]) \in Elements(columns[1])
       /\ TimeoutEntry(j) \in Elements(columns[2])
       /\ jobs[j].elapsed >= maxWaitTime

\* C23: after an accepted submission the controller eventually is idle again
\* (isProcessing false, send button and input enabled), and the step that
\* makes it idle, a reset aside, comes when every message has ended.
C23_IdleAfterOutcome ==
    /\ chat.isProcessing ~> (~chat.isProcessing /\ ~sendDisabled)
    /\ [][chat.isProcessing /\ ~chat'.isProcessing /\ ~ResetStep
          => \A j \in JobIds : jobs'[j].phase = "done"]_vars

\* C24: the budget of a message runs from its submission: when a status poll
\* returns and the next one is scheduled, less than maxWaitTime has passed
\* since the message was submitted.
C24_BudgetFromSubmission ==
    [][\A j \in JobIds :
          jobs[j].phase = "polling" /\ jobs'[j].phase = "waiting"
          => jobs'[j].waited + jobs'[j].elapsed < maxWaitTime]_vars

\* the poll of message j returned with the response of the second agent only,
\* the first slot is open, and the loop goes on
SecondFirst(j) ==
    /\ polled'.job = j
    /\ polled'.fresh = {2}
    /\ 1 \notin jobs[j].received
    /\ jobs'[j].phase = "waiting"

FirstSucceeded(r) ==
    /\ r \in Pending("select_first")
    /\ net' = Send(Answered(net, r), Req("get_second_options", ai.sessionId, NoKey))

\* C26: another first agent can always be chosen: after a successful
\* selectFirstAgent no first-agent card is disabled, the card of the chosen
\* key is the displayed first selection whatever was displayed before, and a
\* click on any first-agent card is one that sends select_first.
C26_FirstChoiceReplaceable ==
    [][\A r \in BagToSet(net) :
          FirstSucceeded(r)
          => /\ ai'.firstDisabled = {}
             /\ ai'.firstCards = ai.firstCards
             /\ r.key \in Range(ai.firstCards) => ai'.firstSel = r.key]_vars

\* the second-slot cards were drawn for first choice "a", and a later
\* select_first of "b" has succeeded and replaced it, slot two being unset
C26_Witness ==
    /\ currentState = "ai-selection"
    /\ ai.secondCards = <<"b">>
    /\ ai.firstSel = "b"
    /\ ai.secondSel = NoKey
    /\ ai.firstDisabled = {}
    /\ Pending("get_second_options") # {}

\* C27: once the second slot of the session is set (the coordinator holds the
\* finalized pair, which only resetToUserSelection clears), no select_first
\* request is sent for that session.
C27_FirstFixedAfterSecond ==
    [][\A r \in BagToSet(net') :
          /\ Issued(r) > 0
          /\ r.op = "select_first"
          /\ r.sid = sessionData.session_id
          => ~sessionData.hasAgents]_vars

\* a select_first request is answered in this step
FirstAnswered == \E q \in Pending("select_first") : CopiesIn(q, net') < CopiesIn(q, net)

\* C28: the second-slot candidates are requested only in the step that takes
\* a successful answer of select_first (a failed or non-success answer sends
\* no get_second_options), and the second-slot cards drawn from an answer are
\* the server's agents in the server's order, none of them selected or
\* disabled.
C28_SecondOptionsAfterSuccess ==
    [][/\ \A r \in BagToSet(net') :
             Issued(r) > 0 /\ r.op = "get_second_options"
             => FirstAnswered /\ errorShown' = <<>>
       /\ FirstAnswered /\ errorShown' # <<>>
             => \A r \in BagToSet(net') : r.op = "get_second_options" => Issued(r) = 0
       /\ served' # NoServed
             => /\ ai'.secondCards = served'
                /\ ai'.secondSel = NoKey
                /\ ai'.secondDisabled = {}]_vars

\* the server listed the first choice among the second-slot candidates and
\* the cards show it
C28_Witness ==
    /\ served = <<"a", "b">>
    /\ ai.firstSel = "a"
    /\ ai.secondCards = <<"a", "b">>
    /\ ai.firstDone # {}

\* the answer taken in this step was a failure or a non-success answer of
\* createSession or selectSession
SessionRefused ==
    errorShown' \in {showError(<<"Error creating session.">>),
                     showError(<<"Error creating session: ", NetError>>),
                     showError(<<"Error selecting session.">>),
                     showError(<<"Error selecting session: ", NetError>>)}

\* C29: the coordinator gets a session only from a confirmed answer: a step
\* that takes a successful answer of createSession or selectSession(id)
\* leaves the coordinator with the created or selected id on the screen
\* ai-selection, a step that takes any other answer leaves session data and
\* screen as they were, and no other step gives the coordinator a session id.
C29_SessionAfterConfirmation ==
    [][/\ \A r \in BagToSet(net) :
             r.op \in {"create", "select"} /\ CopiesIn(r, net') < CopiesIn(r, net)
             => IF SessionRefused
                THEN UNCHANGED <<sessionData, currentState>>
                ELSE /\ currentState' = "ai-selection"
                     /\ sessionData'.session_id # NoId
                     /\ sessionData'.session_id = user'.selectedSession
                     /\ r.op = "select" => sessionData'.session_id = r.sid
       /\ sessionData'.session_id \notin {NoId, sessionData.session_id}
             => SessionAnswered /\ ~SessionRefused]_vars

\* a step that leaves the chat screen or resets the controllers
Navigated == currentState' # currentState \/ ResetStep

\* the poll loop of message j ends in this step
LoopEnds(j) == jobs[j].phase = "polling" /\ jobs'[j].phase = "done"

\* the loop's own reasons to end: both slots resolved, status completed or
\* budget used up at a poll result, or a failed getChatStatus request
OwnStop(j) ==
    \/ jobs'[j].exit = "resolved" /\ jobs'[j].received = Slots
    \/ /\ jobs'[j].exit = "stopped"
       /\ polled'.job = j
       /\ (polled'.status = "completed" \/ jobs[j].elapsed >= maxWaitTime)
    \/ jobs'[j].exit = "poll_failed"

\* a scheduled poll is issued whatever the screen
PollsGoOn ==
    \A j \in 1..MaxJobs :
       (Len(jobs) >= j /\ jobs[j].phase = "waiting")
           ~> (Len(jobs) >= j /\ jobs[j].phase = "polling")

Orphaned(j) ==
    /\ jobs[j].phase # "done"
    /\ \A c \in Slots \ jobs[j].received : ~Attached(columns, c, j)

\* C31: a result of a message that was in flight when the columns were
\* cleared changes neither the columns nor the status indicators: a step in
\* which such a message advances leaves both as they were.
C31_LateResultIgnored ==
    [][\A j \in JobIds :
          Orphaned(j) /\ jobs'[j] # jobs[j]
          => columns' = columns /\ aiStatus' = aiStatus]_vars

\* C32: a column whose status indicator shows ready holds no placeholder.
C32_ReadyMeansNoPlaceholder ==
    \A c \in Slots :
       aiStatus[c] = "ready" => \A j \in JobIds : ~Attached(columns, c, j)

\* C33: the chat screen is entered only from the agent-selection screen, and
\* an answer of selectSecondAgent taken while another screen is shown stores
\* no agents and leaves the screen as it is.
C33_ChatOnlyFromAISelection ==
    [][/\ currentState' = "chat-comparison" /\ currentState # "chat-comparison"
             => currentState = "ai-selection"
       /\ handoff'.answer # "none" /\ currentState # "ai-selection"
             => /\ sessionData' = sessionData
                /\ currentState' = currentState]_vars

\* C34: the agents in the coordinator's session data belong to the session
\* whose id is held with them: a step that changes the session id leaves no
\* selected agents in the session data, and agents are stored only from the
\* answer of a select_second request of the session that is held.
C34_AgentsOfHeldSession ==
    [][/\ sessionData'.session_id # sessionData.session_id
             => ~sessionData'.hasAgents
       /\ \A r \in Pending("select_second") :
             /\ CopiesIn(r, net') < CopiesIn(r, net)
             /\ handoff'.answer = "ready"
             /\ sessionData'.hasAgents
             => r.sid = sessionData'.session_id]_vars

\* the getChatStatus requests of message j that are unanswered, and its
\* scheduled polls
InFlight(js, j) == IF js[j].phase = "polling" THEN 1 ELSE 0
Scheduled(js, j) == IF js[j].phase = "waiting" THEN 1 ELSE 0

\* C35: a message has at most one getChatStatus request in flight: a request
\* is issued only when the start request returns or a scheduled poll comes
\* due, a poll is scheduled only by the return of the request in flight, a
\* request that failed schedules none, and request and scheduled poll never
\* coexist.
C35_OnePollInFlight ==
    [][\A j \in JobIds :
          /\ InFlight(jobs', j) + Scheduled(jobs', j) <= 1
          /\ InFlight(jobs', j) > InFlight(jobs, j)
                => jobs[j].phase = "starting" \/ Scheduled(jobs, j) = 1
          /\ Scheduled(jobs', j) > Scheduled(jobs, j)
                => InFlight(jobs, j) = 1 /\ polled'.job = j
          /\ InFlight(jobs, j) = 1 /\ polled'.job # j /\ jobs'[j].phase # jobs[j].phase
                => /\ jobs'[j].exit = "poll_failed"
                   /\ Scheduled(jobs', j) = 0
                   /\ InFlight(jobs', j) = 0]_vars

\* a status request failed after an earlier poll had been answered and
\* followed by another: the loop is over with no poll scheduled
C35_Witness ==
    \E j \in JobIds :
       /\ jobs[j].exit = "poll_failed"
       /\ jobs[j].phase = "done"
       /\ jobs[j].due > 0

\* the result of a status poll of message j is processed after the budget
LatePoll(j) ==
    /\ jobs[j].phase = "polling"
    /\ polled'.job = j
    /\ jobs[j].elapsed >= maxWaitTime

\* C36: a poll result processed once maxWaitTime has elapsed resolves no slot
\* as Success: every slot still open becomes Failed "Request timeout", also
\* when the result carries that slot's response.
C36_NoSuccessAfterBudget ==
    [][\A j \in JobIds : \A c \in Slots :
          LatePoll(j) /\ OpenSlot(j, c)
          => /\ c \notin jobs'[j].received
             /\ \A e \in Elements(columns'[c]) :
                   e.job = j /\ e.kind = "assistant" => e.meta.error
             /\ Attached(columns, c, j) => TimedOut(j, c)]_vars

\* the user entries of a column, in order
Users(col) == SelectSeq(col, LAMBDA e : e.kind = "user")
\* the chat holds two selected agents
TwoAgents(c) == c.sessionData.hasAgents /\ Len(c.sessionData.selectedAgents) = 2
\* a submission is accepted in this step
Accepted == Len(jobs') = Len(jobs) + 1

\* C37: with two selected agents both columns hold the same sequence of user
\* messages: an accepted submission appends the message once to each column,
\* and any other step leaves the user entries of a column as they are or
\* clears both columns.
C37_SameUserMessages ==
    [][/\ TwoAgents(chat') => Users(columns'[1]) = Users(columns'[2])
       /\ Accepted /\ TwoAgents(chat)
             => \A c \in Slots :
                   /\ Len(Users(columns'[c])) = Len(Users(columns[c])) + 1
                   /\ SubSeq(Users(columns'[c]), 1, Len(Users(columns[c])))
                         = Users(columns[c])
                   /\ Users(columns'[c])[Len(Users(columns'[c]))].job = Len(jobs')
                   /\ Users(columns'[c])[Len(Users(columns'[c]))].text = Trim(formInput'[1])
       /\ ~Accepted
             => \/ \A c \in Slots : Users(columns'[c]) = Users(columns[c])
                \/ columns' = clearMessages]_vars

\* two messages were accepted and each column shows both of them
C37_Witness ==
    /\ TwoAgents(chat)
    /\ Len(Users(columns[1])) = 2
    /\ Users(columns[2]) = Users(columns[1])
    /\ Users(columns[1])[1].job = 1
    /\ Users(columns[1])[2].job = 2

\* C38: when the wait for the scripts ends with a component missing, the
\* start-up has failed: the takeover is shown, no StateManager exists, the
\* application is not marked initialized, and nothing changes that later.
C38_MissingComponentFatal ==
    [][/\ /\ app.phase = "waiting"
          /\ app'.waited > app.waited
          /\ app'.waited >= maxWait
          => app'.phase = "failed"
       /\ app'.phase = "failed"
             => /\ app'.takeover # <<>>
                /\ ~app'.stateManager
                /\ ~app'.initialized
       /\ app.phase = "failed" => app'.phase = "failed"
       /\ app'.phase \in {"health", "started"} => app'.loaded = Components]_vars

\* only the chat screen's class was missing when the wait ended
C38_Witness ==
    /\ app.phase = "failed"
    /\ app.waited = maxWait
    /\ Missing(app.loaded) = {"ChatComparisonState"}
    /\ app.takeover # <<>>
    /\ ~app.stateManager
    /\ ~app.initialized

\* C39: whatever the health check returns or throws, start-up goes on: the
\* StateManager is created, the application is marked initialized and no
\* takeover is shown.
C39_HealthCheckNotFatal ==
    [][app.phase = "health" /\ app' # app
          => /\ app'.phase = "started"
             /\ app'.stateManager
             /\ app'.initialized
             /\ app'.takeover = <<>>]_vars

\* the health request failed and the application started all the same
C39_Witness ==
    /\ app.health = "threw"
    /\ app.phase = "started"
    /\ app.stateManager
    /\ app.initialized
    /\ app.waited > 0

====
